---- MODULE Spec2Model ----
(***************************************************************************)
(* Model of the Dataverse MCP setup tool (mcp_setup.py), in its two        *)
(* variants:                                                               *)
(*   unified : plugins/dataverse-mcp-setup/.../mcp_setup.py                *)
(*             (Claude Code CLI + GitHub Copilot, fixed server name)       *)
(*   perorg  : plugins/dataverse/skills/mcp-setup/mcp_setup.py             *)
(*             (GitHub Copilot only, per-organization server name)         *)
(* Both variants read and write the same file, ~/.copilot/mcp-config.json. *)
(*                                                                         *)
(* Python strings are modelled as sequences of one-character strings, so   *)
(* that rstrip, replace, split, lower, startswith, "in" and the ordering   *)
(* used by sorted() are computed, not assumed.                             *)
(***************************************************************************)
EXTENDS Integers, Sequences

VARIABLES file, hasClaude, writable, call, pre, exit, out, err, steps, runs,
          lpc, procs

vars == <<file, hasClaude, writable, call, pre, exit, out, err, steps, runs,
          lpc, procs>>

(***************************************************************************)
(* Bounds of the model.                                                    *)
(***************************************************************************)
\* number of command invocations in one behaviour
MaxRuns == 2

\* number of records in a management-API response
MaxRecords == 2

(***************************************************************************)
(* Character tables and program constants.                                 *)
(***************************************************************************)
\* printable ASCII, code points 32..126 in order; the grave accent (code 96)
\* is written "U+0060"
Ascii ==
  <<" ", "!", "\"", "#", "$", "%", "&", "'", "(", ")", "*", "+", ",", "-", ".", "/", "0",
    "1", "2", "3", "4", "5", "6", "7", "8", "9", ":", ";", "<", "=", ">", "?", "@", "A",
    "B", "C", "D", "E", "F", "G", "H", "I", "J", "K", "L", "M", "N", "O", "P", "Q", "R",
    "S", "T", "U", "V", "W", "X", "Y", "Z", "[", "\\", "]", "^", "_", "U+0060", "a", "b", "c",
    "d", "e", "f", "g", "h", "i", "j", "k", "l", "m", "n", "o", "p", "q", "r", "s", "t",
    "u", "v", "w", "x", "y", "z", "{", "|", "}", "~">>

ascii_uppercase ==
  <<"A", "B", "C", "D", "E", "F", "G", "H", "I", "J", "K", "L", "M", "N", "O", "P", "Q",
    "R", "S", "T", "U", "V", "W", "X", "Y", "Z">>

ascii_lowercase ==
  <<"a", "b", "c", "d", "e", "f", "g", "h", "i", "j", "k", "l", "m", "n", "o", "p", "q",
    "r", "s", "t", "u", "v", "w", "x", "y", "z">>

SERVER_NAME ==
  <<"D", "a", "t", "a", "v", "e", "r", "s", "e">>

CLAUDE_OAUTH_CLIENT_ID ==
  <<"f", "4", "f", "f", "e", "9", "7", "c", "-", "2", "0", "c", "7", "-", "4", "6", "2",
    "0", "-", "9", "a", "d", "6", "-", "b", "3", "e", "4", "1", "f", "8", "7", "8", "d",
    "d", "0">>

SERVER_NAME_PREFIX ==
  <<"D", "a", "t", "a", "v", "e", "r", "s", "e", "M", "c", "p">>

NestedPhrase1 ==
  <<"c", "a", "n", "n", "o", "t", " ", "b", "e", " ", "l", "a", "u", "n", "c", "h", "e",
    "d", " ", "i", "n", "s", "i", "d", "e", " ", "a", "n", "o", "t", "h", "e", "r", " ",
    "C", "l", "a", "u", "d", "e", " ", "C", "o", "d", "e", " ", "s", "e", "s", "s", "i",
    "o", "n">>

NestedPhrase2 ==
  <<"a", "l", "r", "e", "a", "d", "y", " ", "r", "u", "n", "n", "i", "n", "g">>

S_https ==
  <<"h", "t", "t", "p", "s", ":", "/", "/">>

S_http ==
  <<"h", "t", "t", "p", ":", "/", "/">>

S_api_mcp ==
  <<"/", "a", "p", "i", "/", "m", "c", "p">>

S_api_mcp_preview ==
  <<"/", "a", "p", "i", "/", "m", "c", "p", "_", "p", "r", "e", "v", "i", "e", "w">>

S_CommonDataService ==
  <<"C", "o", "m", "m", "o", "n", "D", "a", "t", "a", "S", "e", "r", "v", "i", "c", "e">>

S_unnamed ==
  <<"(", "u", "n", "n", "a", "m", "e", "d", ")">>

S_httpType ==
  <<"h", "t", "t", "p">>

(***************************************************************************)
(* Python string operations.                                               *)
(***************************************************************************)
\* code point of a printable ASCII character (the order sorted() uses)
Ord(c) == 31 + (CHOOSE i \in 1..Len(Ascii) : Ascii[i] = c)

\* s < t for Python strings: lexicographic by code point
RECURSIVE StrLess(_, _)
StrLess(s, t) ==
  IF t = <<>> THEN FALSE
  ELSE IF s = <<>> THEN TRUE
  ELSE IF Head(s) = Head(t) THEN StrLess(Tail(s), Tail(t))
  ELSE Ord(Head(s)) < Ord(Head(t))

\* sorted(S) for a set S of strings
RECURSIVE Sorted(_)
Sorted(S) ==
  IF S = {} THEN <<>>
  ELSE LET m == CHOOSE x \in S : \A y \in S \ {x} : StrLess(x, y)
       IN  <<m>> \o Sorted(S \ {m})

\* s.rstrip(chars): every trailing character that is in chars is removed
RECURSIVE RStrip(_, _)
RStrip(s, chars) ==
  IF s # <<>> /\ s[Len(s)] \in chars
  THEN RStrip(SubSeq(s, 1, Len(s) - 1), chars)
  ELSE s

\* s.startswith(p)
StartsWith(s, p) == Len(s) >= Len(p) /\ SubSeq(s, 1, Len(p)) = p

\* p in s (substring test)
Contains(s, p) ==
  \E i \in 1..(Len(s) - Len(p) + 1) : SubSeq(s, i, i + Len(p) - 1) = p

\* c.lower() for one character
LowerChar(c) ==
  IF \E i \in 1..Len(ascii_uppercase) : ascii_uppercase[i] = c
  THEN ascii_lowercase[CHOOSE i \in 1..Len(ascii_uppercase) : ascii_uppercase[i] = c]
  ELSE c

\* s.lower()
Lower(s) == [i \in 1..Len(s) |-> LowerChar(s[i])]

\* s.replace(old, ""): non-overlapping occurrences, scanned left to right
RECURSIVE Remove(_, _)
Remove(s, old) ==
  IF s = <<>> THEN <<>>
  ELSE IF StartsWith(s, old) THEN Remove(SubSeq(s, Len(old) + 1, Len(s)), old)
  ELSE <<Head(s)>> \o Remove(Tail(s), old)

\* s.split(sep)[0] for a one-character separator
RECURSIVE SplitFirst(_, _)
SplitFirst(s, sep) ==
  IF s = <<>> \/ Head(s) = sep THEN <<>>
  ELSE <<Head(s)>> \o SplitFirst(Tail(s), sep)

\* the characters \S does not match
Whitespace == {" ", "\t", "\n"}

\* the longest prefix of s without whitespace
RECURSIVE NonSpacePrefix(_)
NonSpacePrefix(s) ==
  IF s = <<>> \/ Head(s) \in Whitespace THEN <<>>
  ELSE <<Head(s)>> \o NonSpacePrefix(Tail(s))

\* re.findall(r"https://\S+", s): left to right, greedy, non-overlapping
RECURSIVE FindAllUrls(_)
FindAllUrls(s) ==
  IF s = <<>> THEN <<>>
  ELSE LET rest == SubSeq(s, Len(S_https) + 1, Len(s))
           tail == NonSpacePrefix(rest)
       IN  IF StartsWith(s, S_https) /\ tail # <<>>
           THEN <<S_https \o tail>>
                \o FindAllUrls(SubSeq(rest, Len(tail) + 1, Len(rest)))
           ELSE FindAllUrls(Tail(s))

(***************************************************************************)
(* JSON values, as far as mcp-config.json needs them.  A dict is a         *)
(* function; the content of the file is a JSON value, or one of the two    *)
(* ways open()/json.load() fail ("missing": FileNotFoundError,             *)
(* "malformed": json.JSONDecodeError).                                     *)
(***************************************************************************)
JNull == [t |-> "null"]

JList == [t |-> "list"]

JStr(s) == [t |-> "str", s |-> s]

JObj(f) == [t |-> "obj", o |-> f]

FileMissing == [t |-> "missing"]

FileMalformed == [t |-> "malformed"]

\* {}
EmptyDict == [k \in {} |-> JNull]

IsDict(v) == v.t = "obj"

\* d[k] = v on a dict
Put(d, k, v) == [x \in (DOMAIN d) \cup {k} |-> IF x = k THEN v ELSE d[x]]

\* d.get(k, default) on a dict
Get(d, k, default) == IF k \in DOMAIN d THEN d[k] ELSE default

(***************************************************************************)
(* Endpoint URL and server name.                                           *)
(***************************************************************************)
\* mutant of McpUrl: the two suffixes exchanged
McpUrl_swapped(org_url, endpoint_type) ==
  IF endpoint_type = "preview" THEN org_url \o S_api_mcp
  ELSE org_url \o S_api_mcp_preview

\* configure: "Build MCP URL"
McpUrl(org_url, endpoint_type) ==
  IF endpoint_type = "preview" THEN org_url \o S_api_mcp_preview
  ELSE org_url \o S_api_mcp

\* argparse: endpoint_type is optional (nargs="?") with default "ga"
EndpointArg(arg) == IF arg = "omitted" THEN "ga" ELSE arg

\* perorg: extract_org_name
extract_org_name(org_url) ==
  LET url == RStrip(Remove(Remove(org_url, S_https), S_http), {"/"})
  IN  SplitFirst(url, ".")

\* perorg: get_server_name
get_server_name(org_url) == SERVER_NAME_PREFIX \o extract_org_name(org_url)

(***************************************************************************)
(* Config-store merge write: configure_copilot.                            *)
(***************************************************************************)
\* "Load existing config or create new"
LoadOrEmpty(f) == IF f.t \in {"missing", "malformed"} THEN JObj(EmptyDict) ELSE f

\* the entry the tool writes: no OAuth fields
NewEntry(mcp_url) == JObj([type |-> JStr(S_httpType), url |-> JStr(mcp_url)])

\* mutant of ServersKey: the two keys looked up in the other order
ServersKey_mcpFirst(config) ==
  IF "mcpServers" \in DOMAIN config.o THEN "mcpServers" ELSE "servers"

\* servers_key = "servers" if "servers" in config else "mcpServers"
\* (config is a dict here)
ServersKey(config) ==
  IF "servers" \in DOMAIN config.o THEN "servers" ELSE "mcpServers"

\* the upsert on a dict config whose servers mapping is a dict
Upsert(config, key, server_name, mcp_url) ==
  LET withKey == IF key \in DOMAIN config.o THEN config.o
                 ELSE Put(config.o, key, JObj(EmptyDict))
  IN  JObj(Put(withKey, key,
               JObj(Put(withKey[key].o, server_name, NewEntry(mcp_url)))))

\* configure_copilot(mcp_url, server_name) on file content f.  can_write is
\* FALSE when mkdir/open raise OSError (a read-only or unwritable location);
\* a top-level value that is no dict, or a servers value that is no dict,
\* raises TypeError before the file is opened for writing.  Result: the
\* exception raised ("none" when the write was done) and the file afterwards.
configure_copilot(mcp_url, server_name, f, can_write) ==
  LET config == LoadOrEmpty(f)
  IN  IF ~can_write THEN [exc |-> "OSError", file |-> f]
      ELSE IF ~IsDict(config) THEN [exc |-> "TypeError", file |-> f]
      ELSE LET key == ServersKey(config)
           IN  IF key \in DOMAIN config.o /\ ~IsDict(config.o[key])
               THEN [exc |-> "TypeError", file |-> f]
               ELSE [exc |-> "none",
                     file |-> Upsert(config, key, server_name, mcp_url)]

(***************************************************************************)
(* The write-back as the file system sees it.  open(config_file, "w")      *)
(* truncates the file; the text, json.dumps(config, indent=2) and a        *)
(* newline, is buffered and reaches the file at offset 0 when the file is  *)
(* closed, over whatever the file holds by then.  A file that was          *)
(* truncated or overwritten in part is [t |-> "malformed", len |-> n], n   *)
(* its length in characters.                                               *)
(***************************************************************************)
\* sum of f[k] over the keys k of S
RECURSIVE SumOver(_, _)
SumOver(f, S) ==
  IF S = {} THEN 0
  ELSE LET k == CHOOSE x \in S : TRUE
       IN  f[k] + SumOver(f, S \ {k})

\* length of json.dumps(v, indent=2) for a value v at nesting depth d
RECURSIVE DumpLen(_, _)
DumpLen(v, d) ==
  IF v.t = "str" THEN Len(v.s) + 2
  ELSE IF v.t = "null" THEN 4
  ELSE IF v.t = "list" THEN 2
  ELSE IF DOMAIN v.o = {} THEN 2
  ELSE LET item == [k \in DOMAIN v.o |->
                      1 + 2 * (d + 1) + (Len(k) + 2) + 2 + DumpLen(v.o[k], d + 1) + 1]
       IN  1 + (SumOver(item, DOMAIN v.o) - 1) + 1 + 2 * d + 1

\* length of the text the tool writes for config: the dump and "\n"
TextLen(config) == DumpLen(config, 0) + 1

\* the file right after open(config_file, "w")
Truncated == [t |-> "malformed", len |-> 0]

\* length of a file the tool wrote or truncated
DiskLen(f) == IF f.t = "malformed" THEN f.len ELSE TextLen(f)

\* the file after the text of config is written at offset 0 over f: the
\* text alone when f is not longer than it, or longer by the final newline
\* only; otherwise the text followed by the rest of f, which is no JSON
WriteOver(f, config) ==
  IF DiskLen(f) <= TextLen(config) + 1 THEN config
  ELSE [t |-> "malformed", len |-> DiskLen(f)]

(***************************************************************************)
(* Configured-server reader: get_configured_servers.                       *)
(***************************************************************************)
\* characters trimmed from a URL found in the output of "claude mcp list"
TrailingPunct == {".", ",", ";", ")", "\"", "'"}

\* Source 1.  run is the outcome of subprocess.run(["claude","mcp","list"]):
\* [exc |-> "none" | "TimeoutExpired" | "FileNotFoundError", rc, stdout]
ClaudeListUrls(run) ==
  IF run.exc = "none" /\ run.rc = 0
  THEN LET found == FindAllUrls(run.stdout)
       IN  {RStrip(found[i], TrailingPunct) : i \in 1..Len(found)}
  ELSE {}

\* mutant of ReadServers: "servers" preferred to "mcpServers"
ReadServers_serversFirst(config) ==
  Get(config.o, "servers", Get(config.o, "mcpServers", JObj(EmptyDict)))

\* config.get("mcpServers", config.get("servers", {})) on a dict config
ReadServers(config) ==
  Get(config.o, "mcpServers", Get(config.o, "servers", JObj(EmptyDict)))

\* server.get("url", "") for one entry of the mapping
EntryUrl(server) == Get(server.o, "url", JStr(<<>>))

\* the loop over servers.values() raises AttributeError when an entry is no
\* dict or its url is no string
EntriesWellShaped(servers) ==
  \A n \in DOMAIN servers.o :
    /\ IsDict(servers.o[n])
    /\ EntryUrl(servers.o[n]).t = "str"

\* the filter on one url: trim trailing "/", keep https:// only
KeepUrl(url) == StartsWith(RStrip(url, {"/"}), S_https)

\* Source 2 on file content f: [crash, urls].  FileNotFoundError and
\* JSONDecodeError are caught; AttributeError is not.
CopilotUrls(f) ==
  IF f.t \in {"missing", "malformed"} THEN [crash |-> FALSE, urls |-> {}]
  ELSE IF ~IsDict(f) THEN [crash |-> TRUE, urls |-> {}]
  ELSE LET servers == ReadServers(f)
       IN  IF ~IsDict(servers) \/ ~EntriesWellShaped(servers)
           THEN [crash |-> TRUE, urls |-> {}]
           ELSE [crash |-> FALSE,
                 urls |-> {RStrip(EntryUrl(servers.o[n]).s, {"/"}) :
                             n \in {m \in DOMAIN servers.o :
                                      KeepUrl(EntryUrl(servers.o[m]).s)}}]

(***************************************************************************)
(* Results of a command: the exit code of the process, what it printed to  *)
(* standard output and to the error stream (one item per message), the     *)
(* external steps it took, in order, and the config file afterwards.       *)
(* An uncaught Python exception ends the process with a traceback on the   *)
(* error stream and exit code 1.                                           *)
(***************************************************************************)
Line(tag, arg) == [line |-> tag, arg |-> arg]

Crash(steps_, f) ==
  [exit |-> 1, out |-> <<>>, err |-> <<"Traceback">>, steps |-> steps_, file |-> f]

\* the outcome of a subprocess that was not run
NoRun == [exc |-> "none", rc |-> 0, stdout |-> <<>>, stderr |-> <<>>]

(***************************************************************************)
(* unified: configure_claude and configure.                                *)
(***************************************************************************)
ManualCmdHead ==
  <<"c", "l", "a", "u", "d", "e", " ", "m", "c", "p", " ", "a", "d", "d", " ", "-", "-",
    "s", "c", "o", "p", "e", " ", "u", "s", "e", "r", " ", "\"">>

ManualCmdMid ==
  <<"\"", " ", "-", "t", " ", "h", "t", "t", "p", " ", "\"">>

ManualCmdClient ==
  <<"\"", " ", "-", "-", "c", "l", "i", "e", "n", "t", "-", "i", "d", " ", "\"">>

ManualCmdTail ==
  <<"\"">>

\* the manual command of configure_claude
ManualCmd(mcp_url) ==
  ManualCmdHead \o SERVER_NAME \o ManualCmdMid \o mcp_url
    \o ManualCmdClient \o CLAUDE_OAUTH_CLIENT_ID \o ManualCmdTail

\* the test configure_claude makes on e.stderr + e.stdout: both phrases are
\* looked up, as written in the source, in the lower-cased output
IsNestedSession(error_output) ==
  \/ Contains(Lower(error_output), NestedPhrase1)
  \/ Contains(Lower(error_output), NestedPhrase2)

\* configure_claude(mcp_url), run being the outcome of "claude mcp add":
\* raised (CalledProcessError re-raised), or the tuple (success, manual_cmd)
configure_claude(mcp_url, run) ==
  IF run.rc = 0
  THEN [raised |-> FALSE, success |-> TRUE, manual_cmd |-> <<>>]
  ELSE IF IsNestedSession(run.stderr \o run.stdout)
  THEN [raised |-> FALSE, success |-> FALSE, manual_cmd |-> ManualCmd(mcp_url)]
  ELSE [raised |-> TRUE, success |-> FALSE, manual_cmd |-> <<>>]

\* mutant of ClaudeNotFound: the manual-instructions block and exit code 0
ClaudeNotFound_fallback(tool, mcp_url) ==
  [ret |-> TRUE, exit |-> 0, configured_for |-> <<>>, manual_commands |-> <<>>,
   out |-> <<Line("manual_instructions", mcp_url)>>, err |-> <<>>, steps |-> <<>>]

\* configure, "if not has_claude": the diagnostic, and return 1 only if
\* Claude was exclusively requested
ClaudeNotFound(tool, mcp_url) ==
  [ret |-> tool = "claude", exit |-> 1, configured_for |-> <<>>,
   manual_commands |-> <<>>, out |-> <<>>, err |-> <<"claude_not_found">>,
   steps |-> <<>>]

\* configure, "Configure Claude CLI if requested and available".  ret: the
\* function returned here, with exit code exit
ClaudeStage(tool, has_claude, mcp_url, run) ==
  IF tool \notin {"claude", "both"}
  THEN [ret |-> FALSE, exit |-> 0, configured_for |-> <<>>, manual_commands |-> <<>>,
        out |-> <<>>, err |-> <<>>, steps |-> <<>>]
  ELSE IF ~has_claude THEN ClaudeNotFound(tool, mcp_url)
  ELSE LET r == configure_claude(mcp_url, run)
           msg == Line("manual", r.manual_cmd)
       IN  IF r.raised
           THEN [ret |-> tool = "claude", exit |-> 1, configured_for |-> <<>>,
                 manual_commands |-> <<>>, out |-> <<>>, err |-> <<"claude_failed">>,
                 steps |-> <<"claude_mcp_add">>]
           ELSE IF r.success
           THEN [ret |-> FALSE, exit |-> 0, configured_for |-> <<"Claude Code CLI">>,
                 manual_commands |-> <<>>, out |-> <<>>, err |-> <<>>,
                 steps |-> <<"claude_mcp_add">>]
           ELSE [ret |-> tool = "claude", exit |-> 0, configured_for |-> <<>>,
                 manual_commands |-> <<msg>>,
                 out |-> IF tool = "claude" THEN <<msg>> ELSE <<>>, err |-> <<>>,
                 steps |-> <<"claude_mcp_add">>]

\* configure, "Configure Copilot if requested"
CopilotStage(tool, mcp_url, f, can_write) ==
  IF tool \notin {"copilot", "both"}
  THEN [ret |-> FALSE, configured_for |-> <<>>, err |-> <<>>, steps |-> <<>>,
        file |-> f]
  ELSE LET w == configure_copilot(mcp_url, SERVER_NAME, f, can_write)
       IN  IF w.exc = "none"
           THEN [ret |-> FALSE, configured_for |-> <<"GitHub Copilot">>, err |-> <<>>,
                 steps |-> <<"configure_copilot">>, file |-> w.file]
           ELSE [ret |-> tool = "copilot", configured_for |-> <<>>,
                 err |-> <<"copilot_failed">>, steps |-> <<"configure_copilot">>,
                 file |-> w.file]

\* configure, from "if not configured_for and not manual_commands" to the end
Summary(configured_for, manual_commands, mcp_url) ==
  IF configured_for = <<>> /\ manual_commands = <<>>
  THEN [exit |-> 1, out |-> <<>>, err |-> <<"no_tools">>]
  ELSE [exit |-> 0,
        out |-> (IF configured_for # <<>>
                 THEN <<Line("registered", <<>>), Line("server_url", mcp_url),
                        Line("configured_for", configured_for)>>
                      \o (IF \E i \in 1..Len(configured_for) :
                               configured_for[i] = "GitHub Copilot"
                          THEN <<Line("copilot_config", <<>>)>> ELSE <<>>)
                 ELSE <<>>)
                \o (IF manual_commands # <<>>
                    THEN <<Line("manual_header", <<>>)>> \o manual_commands
                    ELSE <<>>),
        err |-> <<>>]

\* unified: configure(org_url, endpoint_type, tool)
configure(org_url, endpoint_type, tool, has_claude, run, f, can_write) ==
  LET mcp_url == McpUrl(org_url, endpoint_type)
      cl == ClaudeStage(tool, has_claude, mcp_url, run)
  IN  IF cl.ret
      THEN [exit |-> cl.exit, out |-> cl.out, err |-> cl.err, steps |-> cl.steps,
            file |-> f]
      ELSE LET cp == CopilotStage(tool, mcp_url, f, can_write)
               sm == Summary(cl.configured_for \o cp.configured_for,
                             cl.manual_commands, mcp_url)
           IN  IF cp.ret
               THEN [exit |-> 1, out |-> <<>>, err |-> cl.err \o cp.err,
                     steps |-> cl.steps \o cp.steps, file |-> cp.file]
               ELSE [exit |-> sm.exit, out |-> sm.out,
                     err |-> cl.err \o cp.err \o sm.err,
                     steps |-> cl.steps \o cp.steps, file |-> cp.file]

(***************************************************************************)
(* perorg: configure.                                                      *)
(***************************************************************************)
configure_perorg(org_url, endpoint_type, f, can_write) ==
  LET mcp_url == McpUrl(org_url, endpoint_type)
      server_name == get_server_name(org_url)
      w == configure_copilot(mcp_url, server_name, f, can_write)
  IN  IF w.exc # "none"
      THEN [exit |-> 1, out |-> <<>>, err |-> <<"copilot_failed">>,
            steps |-> <<"configure_copilot">>, file |-> w.file]
      ELSE [exit |-> 0,
            out |-> <<Line("registered", <<>>), Line("server_name", server_name),
                      Line("server_url", mcp_url), Line("copilot_config", <<>>)>>,
            err |-> <<>>, steps |-> <<"configure_copilot">>, file |-> w.file]

(***************************************************************************)
(* get_configured_servers, both variants.                                  *)
(***************************************************************************)
\* print(json.dumps(sorted(urls)))
PrintUrls(urls) == <<Line("json", Sorted(urls))>>

\* unified: get_configured_servers(tool)
get_configured_servers(tool, has_claude, run, f) ==
  LET useClaude == tool \in {"claude", "both"} /\ has_claude
      src1 == IF useClaude THEN ClaudeListUrls(run) ELSE {}
      src2 == IF tool \in {"copilot", "both"} THEN CopilotUrls(f)
              ELSE [crash |-> FALSE, urls |-> {}]
      steps_ == (IF useClaude THEN <<"claude_mcp_list">> ELSE <<>>)
                \o (IF tool \in {"copilot", "both"} THEN <<"read_config">> ELSE <<>>)
  IN  IF src2.crash THEN Crash(steps_, f)
      ELSE [exit |-> 0, out |-> PrintUrls(src1 \cup src2.urls), err |-> <<>>,
            steps |-> steps_, file |-> f]

\* perorg: get_configured_servers()
get_configured_servers_perorg(f) ==
  LET src2 == CopilotUrls(f)
  IN  IF src2.crash THEN Crash(<<"read_config">>, f)
      ELSE [exit |-> 0, out |-> PrintUrls(src2.urls), err |-> <<>>,
            steps |-> <<"read_config">>, file |-> f]

(***************************************************************************)
(* list_environments.                                                      *)
(***************************************************************************)
\* a JSON list with elements
JArr(a) == [t |-> "arr", a |-> a]

\* props = e.get("properties", {})
Props(e) == Get(e.o, "properties", JObj(EmptyDict))

\* mutant of IsDataverse: the databaseType test left out
IsDataverse_any(e) == TRUE

\* props.get("databaseType") != "CommonDataService": continue
IsDataverse(e) ==
  Get(Props(e).o, "databaseType", JNull) = JStr(S_CommonDataService)

\* linked_metadata.get("instanceUrl", "")
RawInstanceUrl(e) ==
  Get(Get(Props(e).o, "linkedEnvironmentMetadata", JObj(EmptyDict)).o,
      "instanceUrl", JStr(<<>>))

\* .rstrip("/") on a record whose instanceUrl is a string
InstanceUrl(e) == RStrip(RawInstanceUrl(e).s, {"/"})

\* the loop body raises AttributeError on a Dataverse record whose
\* linkedEnvironmentMetadata is no dict or whose instanceUrl is no string
RecordRaises(e) ==
  /\ IsDataverse(e)
  /\ \/ ~IsDict(Get(Props(e).o, "linkedEnvironmentMetadata", JObj(EmptyDict)))
     \/ RawInstanceUrl(e).t # "str"

\* the dict appended for a record that is kept
EnvOf(e) ==
  [displayName |-> Get(Props(e).o, "displayName", JStr(S_unnamed)),
   instanceUrl |-> InstanceUrl(e)]

\* "Filter for Dataverse environments" over data["value"], records that do
\* not raise
RECURSIVE FilterEnvs(_)
FilterEnvs(value) ==
  IF value = <<>> THEN <<>>
  ELSE LET e == Head(value)
       IN  (IF IsDataverse(e) /\ InstanceUrl(e) # <<>> THEN <<EnvOf(e)>> ELSE <<>>)
           \o FilterEnvs(Tail(value))

\* mutant of NoEnvironments: an empty list printed as a success
NoEnvironments_emptyArray(steps_) ==
  [exit |-> 0, out |-> <<Line("json", <<>>)>>, err |-> <<>>, steps |-> steps_,
   file |-> FileMissing]

\* "if not envs": message on the error stream, return 1
NoEnvironments(steps_) ==
  [exit |-> 1, out |-> <<>>, err |-> <<"no_environments">>, steps |-> steps_,
   file |-> FileMissing]

\* the tail of list_environments, from the parsed response data on
ListFromData(data, steps_) ==
  IF ~IsDict(data) THEN Crash(steps_, FileMissing)
  ELSE LET value == Get(data.o, "value", JArr(<<>>)).a
       IN  IF \E i \in 1..Len(value) : RecordRaises(value[i])
           THEN Crash(steps_, FileMissing)
           ELSE IF FilterEnvs(value) = <<>> THEN NoEnvironments(steps_)
           ELSE [exit |-> 0, out |-> <<Line("json", FilterEnvs(value))>>,
                 err |-> <<>>, steps |-> steps_, file |-> FileMissing]

Failed(msg, steps_) ==
  [exit |-> 1, out |-> <<>>, err |-> <<msg>>, steps |-> steps_, file |-> FileMissing]

\* unified: list_environments().  az: shutil.which("az") found it; probe,
\* login, token: outcomes of the three az invocations; http: outcome of the
\* GET and of parsing its body; data: the parsed body.  The config file is
\* not touched (the file field of the result is not used).
list_environments(az, probe, login, token, http, data) ==
  IF ~az THEN Failed("az_missing", <<>>)
  ELSE LET s1 == <<"az_account_show">>
               \o (IF probe # "ok" THEN <<"az_login">> ELSE <<>>)
           s2 == s1 \o <<"get_access_token">>
           s3 == s2 \o <<"http_get">>
       IN  IF probe # "ok" /\ login # "ok" THEN Failed("login_failed", s1)
           ELSE IF token # "ok" THEN Failed("no_token", s2)
           ELSE IF http # "ok" THEN Failed(http, s3)
           ELSE ListFromData(data, s3)

\* perorg: list_environments().  The module does not import shutil, so the
\* first statement, shutil.which("az"), raises NameError, whether az is on
\* the search path or not.
list_environments_perorg == Crash(<<>>, FileMissing)

(***************************************************************************)
(* Inputs.                                                                 *)
(***************************************************************************)
Org_example ==
  <<"h", "t", "t", "p", "s", ":", "/", "/", "o", "r", "g", "b", "c", "9", "a", "9", "6",
    "5", "c", ".", "c", "r", "m", "1", "0", ".", "d", "y", "n", "a", "m", "i", "c", "s",
    ".", "c", "o", "m">>

Org_exampleSlash ==
  <<"h", "t", "t", "p", "s", ":", "/", "/", "o", "r", "g", "b", "c", "9", "a", "9", "6",
    "5", "c", ".", "c", "r", "m", "1", "0", ".", "d", "y", "n", "a", "m", "i", "c", "s",
    ".", "c", "o", "m", "/">>

Org_acme ==
  <<"h", "t", "t", "p", "s", ":", "/", "/", "a", "c", "m", "e", ".", "c", "r", "m", ".",
    "d", "y", "n", "a", "m", "i", "c", "s", ".", "c", "o", "m">>

Org_acme4 ==
  <<"h", "t", "t", "p", "s", ":", "/", "/", "a", "c", "m", "e", ".", "c", "r", "m", "4",
    ".", "d", "y", "n", "a", "m", "i", "c", "s", ".", "c", "o", "m">>

Name_github ==
  <<"g", "i", "t", "h", "u", "b">>

Name_jira ==
  <<"j", "i", "r", "a">>

Url_xio ==
  <<"h", "t", "t", "p", "s", ":", "/", "/", "x", ".", "i", "o", "/", "m", "c", "p">>

Url_xioSlash ==
  <<"h", "t", "t", "p", "s", ":", "/", "/", "x", ".", "i", "o", "/", "m", "c", "p", "/">>

Url_plainHttp ==
  <<"h", "t", "t", "p", ":", "/", "/", "x", ".", "i", "o", "/", "m", "c", "p">>

Url_onlyScheme ==
  <<"h", "t", "t", "p", "s", ":", "/", "/", "/">>

Url_acmeGa ==
  <<"h", "t", "t", "p", "s", ":", "/", "/", "a", "c", "m", "e", ".", "c", "r", "m", ".",
    "d", "y", "n", "a", "m", "i", "c", "s", ".", "c", "o", "m", "/", "a", "p", "i", "/",
    "m", "c", "p">>

Url_old ==
  <<"h", "t", "t", "p", "s", ":", "/", "/", "o", "l", "d", ".", "c", "r", "m", ".", "d",
    "y", "n", "a", "m", "i", "c", "s", ".", "c", "o", "m", "/", "a", "p", "i", "/", "m",
    "c", "p">>

Text_nested1 ==
  <<"E", "r", "r", "o", "r", ":", " ", "C", "l", "a", "u", "d", "e", " ", "C", "o", "d",
    "e", " ", "c", "a", "n", "n", "o", "t", " ", "b", "e", " ", "l", "a", "u", "n", "c",
    "h", "e", "d", " ", "i", "n", "s", "i", "d", "e", " ", "a", "n", "o", "t", "h", "e",
    "r", " ", "C", "l", "a", "u", "d", "e", " ", "C", "o", "d", "e", " ", "s", "e", "s",
    "s", "i", "o", "n", ".">>

Text_nested2 ==
  <<"C", "l", "a", "u", "d", "e", " ", "i", "s", " ", "a", "l", "r", "e", "a", "d", "y",
    " ", "r", "u", "n", "n", "i", "n", "g">>

Text_exists ==
  <<"M", "C", "P", " ", "s", "e", "r", "v", "e", "r", " ", "D", "a", "t", "a", "v", "e",
    "r", "s", "e", " ", "a", "l", "r", "e", "a", "d", "y", " ", "e", "x", "i", "s", "t",
    "s", " ", "i", "n", " ", "u", "s", "e", "r", " ", "c", "o", "n", "f", "i", "g">>

Text_listNone ==
  <<"N", "o", " ", "M", "C", "P", " ", "s", "e", "r", "v", "e", "r", "s", " ", "c", "o",
    "n", "f", "i", "g", "u", "r", "e", "d", ".">>

Text_ignored ==
  <<"h", "t", "t", "p", "s", ":", "/", "/", "i", "g", "n", "o", "r", "e", "d", ".", "i", "o">>

Env_urlA ==
  <<"h", "t", "t", "p", "s", ":", "/", "/", "a", ".", "c", "r", "m", ".", "d", "y", "n",
    "a", "m", "i", "c", "s", ".", "c", "o", "m", "/">>

Env_urlB ==
  <<"h", "t", "t", "p", "s", ":", "/", "/", "b", ".", "c", "r", "m", ".", "d", "y", "n",
    "a", "m", "i", "c", "s", ".", "c", "o", "m">>

Env_slashes ==
  <<"/", "/">>

Env_nameA ==
  <<"C", "o", "n", "t", "o", "s", "o">>

Env_dbNone ==
  <<"N", "o", "n", "e">>

Text_listTwo ==
  <<"D", "a", "t", "a", "v", "e", "r", "s", "e", ":", " ", "h", "t", "t", "p", "s", ":",
    "/", "/", "a", "c", "m", "e", ".", "c", "r", "m", ".", "d", "y", "n", "a", "m", "i",
    "c", "s", ".", "c", "o", "m", "/", "a", "p", "i", "/", "m", "c", "p", " ", "(", "H",
    "T", "T", "P", ")", "\n", "g", "i", "t", "h", "u", "b", ":", " ", "(", "h", "t", "t",
    "p", "s", ":", "/", "/", "x", ".", "i", "o", "/", "m", "c", "p", ")", ".", " ", "d",
    "o", "c", "s", ":", " ", "h", "t", "t", "p", "s", ":", "/", "/", "x", ".", "i", "o",
    "/", "m", "c", "p", "/", " ", "h", "t", "t", "p", "s", ":", "/", "/">>

\* organization URLs given to configure (perorg, where the name is derived
\* from the URL), and the two given to the unified tool
OrgUrls == {Org_example, Org_exampleSlash, Org_acme, Org_acme4}

UnifiedOrgUrls == {Org_example, Org_acme}

EndpointArgs == {"preview", "ga", "omitted"}

Tools == {"claude", "copilot", "both"}

\* outcomes of "claude mcp add" (check=True: rc # 0 raises CalledProcessError)
AddRuns ==
  {[exc |-> "none", rc |-> 0, stdout |-> <<>>, stderr |-> <<>>],
   [exc |-> "none", rc |-> 1, stdout |-> <<>>, stderr |-> Text_nested1],
   [exc |-> "none", rc |-> 1, stdout |-> Text_nested2, stderr |-> <<>>],
   [exc |-> "none", rc |-> 1, stdout |-> <<>>, stderr |-> Text_exists]}

\* outcomes of "claude mcp list"
ListRuns ==
  {[exc |-> "none", rc |-> 0, stdout |-> Text_listTwo, stderr |-> <<>>],
   [exc |-> "none", rc |-> 0, stdout |-> Text_listNone, stderr |-> <<>>],
   [exc |-> "none", rc |-> 1, stdout |-> Text_ignored, stderr |-> <<>>],
   [exc |-> "TimeoutExpired", rc |-> 0, stdout |-> <<>>, stderr |-> <<>>],
   [exc |-> "FileNotFoundError", rc |-> 0, stdout |-> <<>>, stderr |-> <<>>]}

\* an entry as the tool writes it, and other shapes found in config files
Entry(url) == JObj([type |-> JStr(S_httpType), url |-> JStr(url)])

EntryOAuth(url) ==
  JObj([command |-> JStr(S_httpType), url |-> JStr(url),
        oauthClientId |-> JStr(CLAUDE_OAUTH_CLIENT_ID)])

EntryNoUrl == JObj([type |-> JStr(S_httpType)])

EntryNullUrl == JObj([type |-> JStr(S_httpType), url |-> JNull])

\* a one- or two-entry servers mapping
Map1(n, e) == JObj(Put(EmptyDict, n, e))

Map2(n1, e1, n2, e2) == JObj(Put(Put(EmptyDict, n1, e1), n2, e2))

\* a top-level object with one or two keys
Top1(k, v) == JObj(Put(EmptyDict, k, v))

Top2(k1, v1, k2, v2) == JObj(Put(Put(EmptyDict, k1, v1), k2, v2))

\* contents of ~/.copilot/mcp-config.json before the first invocation
InitFiles ==
  {FileMissing, FileMalformed, JList, JNull, JObj(EmptyDict),
   Top1("theme", JStr(Name_jira)),
   Top1("mcpServers", Map1(Name_github, Entry(Url_xioSlash))),
   Top1("servers", Map2(Name_github, Entry(Url_xio), Name_jira, Entry(Url_plainHttp))),
   Top2("servers", Map1(Name_github, Entry(Url_xio)),
        "mcpServers", Map1(Name_jira, Entry(Url_acmeGa))),
   Top2("mcpServers", Map2(SERVER_NAME, EntryOAuth(Url_old),
                           Name_github, Entry(Url_onlyScheme)),
        "theme", JStr(Name_jira)),
   Top1("servers", JNull),
   Top1("mcpServers", JNull),
   Top2("servers", JNull, "mcpServers", Map1(Name_github, Entry(Url_xio))),
   Top1("mcpServers", Map1(Name_github, JStr(Url_xio))),
   Top1("mcpServers", Map2(Name_github, EntryNoUrl, Name_jira, Entry(Url_xio))),
   Top1("servers", Map1(Name_github, EntryNullUrl))}

\* environment records of a management-API response
EnvRecord(props) == JObj(Put(EmptyDict, "properties", JObj(props)))

Lem(url) == JObj(Put(EmptyDict, "instanceUrl", url))

RecordShapes ==
  {EnvRecord([databaseType |-> JStr(S_CommonDataService),
              displayName |-> JStr(Env_nameA),
              linkedEnvironmentMetadata |-> Lem(JStr(Env_urlA))]),
   EnvRecord([databaseType |-> JStr(S_CommonDataService),
              linkedEnvironmentMetadata |-> Lem(JStr(Env_urlB))]),
   EnvRecord([databaseType |-> JStr(Env_dbNone),
              displayName |-> JStr(Env_nameA),
              linkedEnvironmentMetadata |-> Lem(JStr(Env_urlB))]),
   EnvRecord([databaseType |-> JStr(S_CommonDataService),
              linkedEnvironmentMetadata |-> Lem(JStr(Env_slashes))]),
   EnvRecord([databaseType |-> JStr(S_CommonDataService),
              displayName |-> JStr(Env_nameA)]),
   EnvRecord([displayName |-> JStr(Env_nameA),
              linkedEnvironmentMetadata |-> Lem(JStr(Env_urlA))]),
   JObj(EmptyDict),
   EnvRecord([databaseType |-> JStr(S_CommonDataService),
              linkedEnvironmentMetadata |-> Lem(JNull)])}

\* sequences over S of length at most n
SeqsUpTo(S, n) == UNION {[1..k -> S] : k \in 0..n}

\* parsed bodies of the management-API response
Responses ==
  {JList, JObj(EmptyDict)}
    \cup {Top1("value", JArr(v)) : v \in SeqsUpTo(RecordShapes, MaxRecords)}

(***************************************************************************)
(* State.                                                                  *)
(*   file      content of ~/.copilot/mcp-config.json                       *)
(*   hasClaude shutil.which("claude") finds the Claude CLI                 *)
(*   writable  the config directory and file can be created and written    *)
(*   call      the last invocation: command, variant, arguments, and the   *)
(*             outcomes of the external calls it made                      *)
(*   pre       content of the file when the last invocation started        *)
(*   exit, out, err, steps   result of the last invocation                 *)
(*   runs      number of invocations so far                                *)
(*   lpc       position of a list-environments invocation that is followed *)
(*             statement by statement                                      *)
(*   procs     the configure invocations that run at the same time, each   *)
(*             with its position and its local variables                   *)
(***************************************************************************)
NoList ==
  [az |-> FALSE, probe |-> "none", login |-> "none", token |-> "none",
   http |-> "none", data |-> JNull]

NoCall ==
  [cmd |-> "none", variant |-> "none", org_url |-> <<>>, endpoint |-> "none",
   tool |-> "none", run |-> NoRun, list |-> NoList]

Init ==
  /\ file \in InitFiles
  /\ hasClaude \in BOOLEAN
  /\ writable \in BOOLEAN
  /\ call = NoCall
  /\ pre = file
  /\ exit = 0
  /\ out = <<>>
  /\ err = <<>>
  /\ steps = <<>>
  /\ runs = 0
  /\ lpc = "idle"
  /\ procs = <<>>

\* one invocation c with result r
Finish(c, r) ==
  /\ call' = c
  /\ pre' = file
  /\ file' = r.file
  /\ exit' = r.exit
  /\ out' = r.out
  /\ err' = r.err
  /\ steps' = r.steps
  /\ runs' = runs + 1
  /\ UNCHANGED <<hasClaude, writable, lpc, procs>>

\* unified: mcp_setup.py configure <org_url> [preview|ga] [--tool ...]
ConfigureUnified ==
  /\ runs < MaxRuns
  /\ \E org \in UnifiedOrgUrls, ea \in EndpointArgs, tool \in Tools :
       \E run \in (IF tool \in {"claude", "both"} /\ hasClaude THEN AddRuns
                   ELSE {NoRun}) :
         Finish([NoCall EXCEPT !.cmd = "configure", !.variant = "unified",
                               !.org_url = org, !.endpoint = ea, !.tool = tool,
                               !.run = run],
                configure(org, EndpointArg(ea), tool, hasClaude, run, file, writable))

\* perorg: mcp_setup.py configure <org_url> [preview|ga]
ConfigurePerOrg ==
  /\ runs < MaxRuns
  /\ \E org \in OrgUrls, ea \in EndpointArgs :
       Finish([NoCall EXCEPT !.cmd = "configure", !.variant = "perorg",
                             !.org_url = org, !.endpoint = ea, !.tool = "copilot"],
              configure_perorg(org, EndpointArg(ea), file, writable))

\* unified: mcp_setup.py get-configured [--tool ...]
GetConfiguredUnified ==
  /\ runs < MaxRuns
  /\ \E tool \in Tools :
       \E run \in (IF tool \in {"claude", "both"} /\ hasClaude THEN ListRuns
                   ELSE {NoRun}) :
         Finish([NoCall EXCEPT !.cmd = "get-configured", !.variant = "unified",
                               !.tool = tool, !.run = run],
                get_configured_servers(tool, hasClaude, run, file))

\* perorg: mcp_setup.py get-configured
GetConfiguredPerOrg ==
  /\ runs < MaxRuns
  /\ Finish([NoCall EXCEPT !.cmd = "get-configured", !.variant = "perorg",
                           !.tool = "copilot"],
            get_configured_servers_perorg(file))

\* the unified tool, configure and get-configured
Next ==
  \/ ConfigureUnified
  \/ GetConfiguredUnified

Spec == Init /\ [][Next]_vars

\* the per-organization tool, configure and get-configured
NextPerOrg ==
  \/ ConfigurePerOrg
  \/ GetConfiguredPerOrg

SpecPerOrg == Init /\ [][NextPerOrg]_vars

(***************************************************************************)
(* list-environments, which neither reads nor writes the config file.  The *)
(* command keeps nothing from one invocation to the next, so a behaviour   *)
(* is one invocation.                                                      *)
(***************************************************************************)
InitList ==
  /\ file = FileMissing
  /\ hasClaude = FALSE
  /\ writable = TRUE
  /\ call = NoCall
  /\ pre = file
  /\ exit = 0
  /\ out = <<>>
  /\ err = <<>>
  /\ steps = <<>>
  /\ runs = 0
  /\ lpc = "idle"
  /\ procs = <<>>

ProbeOutcomes == {"ok", "CalledProcessError", "TimeoutExpired"}

LoginOutcomes == {"ok", "CalledProcessError"}

TokenOutcomes == {"ok", "CalledProcessError", "TimeoutExpired"}

HttpOutcomes == {"ok", "HTTPError", "URLError", "JSONDecodeError", "Exception"}

\* the outcomes an invocation consumes: a call that is not made has none
ListInputs ==
  {l \in [az : BOOLEAN, probe : ProbeOutcomes \cup {"none"},
          login : LoginOutcomes \cup {"none"}, token : TokenOutcomes \cup {"none"},
          http : HttpOutcomes \cup {"none"}, data : {JNull}] :
     /\ (l.probe = "none") = ~l.az
     /\ (l.login = "none") = (l.probe \in {"ok", "none"})
     /\ (l.token = "none") = (l.probe = "none" \/ l.login = "CalledProcessError")
     /\ (l.http = "none") = (l.token # "ok")}

\* unified: mcp_setup.py list-environments
ListEnvironmentsUnified ==
  /\ runs = 0
  /\ \E l \in ListInputs :
       \E d \in (IF l.http = "ok" THEN Responses ELSE {JNull}) :
         LET r == list_environments(l.az, l.probe, l.login, l.token, l.http, d)
         IN  Finish([NoCall EXCEPT !.cmd = "list-environments",
                                   !.variant = "unified",
                                   !.list = [l EXCEPT !.data = d]],
                    [r EXCEPT !.file = file])

\* perorg: mcp_setup.py list-environments
ListEnvironmentsPerOrg ==
  /\ runs = 0
  /\ \E az \in BOOLEAN :
       LET r == list_environments_perorg
       IN  Finish([NoCall EXCEPT !.cmd = "list-environments", !.variant = "perorg",
                                 !.list = [NoList EXCEPT !.az = az]],
                  [r EXCEPT !.file = file])

NextList ==
  \/ ListEnvironmentsUnified
  \/ ListEnvironmentsPerOrg

SpecList == InitList /\ [][NextList]_vars

(***************************************************************************)
(* list-environments followed statement by statement: one action for each  *)
(* external call, lpc the statement the invocation has reached.  call.list *)
(* records the outcome of each call when it is made, steps the calls in    *)
(* the order they were made.                                               *)
(***************************************************************************)
\* try: az account show / except (CalledProcessError, TimeoutExpired): the
\* statement reached next
AfterProbe(outcome) == IF outcome = "ok" THEN "token" ELSE "login"

\* mutant of AfterLogin: a failed login not looked at
AfterLogin_ignored(outcome) == "token"

\* try: az login / except CalledProcessError: return 1
AfterLogin(outcome) == IF outcome = "ok" THEN "token" ELSE "return"

\* try: az account get-access-token / except (...): return 1
AfterToken(outcome) == IF outcome = "ok" THEN "http" ELSE "return"

\* try: urlopen, json.loads / except HTTPError, URLError, JSONDecodeError,
\* Exception: return 1
AfterHttp(outcome) == IF outcome = "ok" THEN "filter" ELSE "return"

\* the invocation goes on: c the call record, pc_ the statement reached,
\* steps_ the external calls made so far
ListStep(c, pc_, steps_) ==
  /\ call' = c
  /\ lpc' = pc_
  /\ steps' = steps_
  /\ UNCHANGED <<file, hasClaude, writable, pre, exit, out, err, runs, procs>>

\* the invocation ends with result r
ListEnd(c, r) ==
  /\ call' = c
  /\ lpc' = "done"
  /\ exit' = r.exit
  /\ out' = r.out
  /\ err' = r.err
  /\ steps' = r.steps
  /\ runs' = runs + 1
  /\ UNCHANGED <<file, hasClaude, writable, pre, procs>>

\* unified: if not shutil.which("az"): message, return 1
StartListUnified ==
  /\ lpc = "idle"
  /\ runs = 0
  /\ \E az \in BOOLEAN :
       LET c == [NoCall EXCEPT !.cmd = "list-environments", !.variant = "unified",
                               !.list = [NoList EXCEPT !.az = az]]
       IN  IF az THEN ListStep(c, "probe", <<>>)
           ELSE ListEnd(c, Failed("az_missing", <<>>))

\* perorg: shutil.which("az") raises NameError, shutil is not imported
StartListPerOrg ==
  /\ lpc = "idle"
  /\ runs = 0
  /\ \E az \in BOOLEAN :
       ListEnd([NoCall EXCEPT !.cmd = "list-environments", !.variant = "perorg",
                              !.list = [NoList EXCEPT !.az = az]],
               list_environments_perorg)

\* subprocess.run(["az", "account", "show"], check=True, timeout=10)
ProbeSession ==
  /\ lpc = "probe"
  /\ \E o \in ProbeOutcomes :
       ListStep([call EXCEPT !.list.probe = o], AfterProbe(o),
                Append(steps, "az_account_show"))

\* subprocess.run(["az", "login"], check=True)
Login ==
  /\ lpc = "login"
  /\ \E o \in LoginOutcomes :
       LET c == [call EXCEPT !.list.login = o]
           s == Append(steps, "az_login")
       IN  IF AfterLogin(o) = "return" THEN ListEnd(c, Failed("login_failed", s))
           ELSE ListStep(c, AfterLogin(o), s)

\* subprocess.run(["az", "account", "get-access-token", ...], timeout=30)
RequestToken ==
  /\ lpc = "token"
  /\ \E o \in TokenOutcomes :
       LET c == [call EXCEPT !.list.token = o]
           s == Append(steps, "get_access_token")
       IN  IF AfterToken(o) = "return" THEN ListEnd(c, Failed("no_token", s))
           ELSE ListStep(c, AfterToken(o), s)

\* urlopen(request, timeout=30), response.read(), json.loads
HttpGet ==
  /\ lpc = "http"
  /\ \E o \in HttpOutcomes :
       \E d \in (IF o = "ok" THEN Responses ELSE {JNull}) :
         LET c == [call EXCEPT !.list.http = o, !.list.data = d]
             s == Append(steps, "http_get")
         IN  IF AfterHttp(o) = "return" THEN ListEnd(c, Failed(o, s))
             ELSE ListStep(c, AfterHttp(o), s)

\* "Filter for Dataverse environments", print or fail
FilterAndPrint ==
  /\ lpc = "filter"
  /\ ListEnd(call, ListFromData(call.list.data, steps))

NextListSteps ==
  \/ StartListUnified
  \/ StartListPerOrg
  \/ ProbeSession
  \/ Login
  \/ RequestToken
  \/ HttpGet
  \/ FilterAndPrint

SpecListSteps == InitList /\ [][NextListSteps]_vars

(***************************************************************************)
(* Configure invocations that run at the same time on the same config      *)
(* file, followed file operation by file operation.  The tool takes no     *)
(* lock.  procs[i] is invocation i:                                        *)
(*   pc        "idle", "read", "open", "dump" or "done"                    *)
(*   variant, org_url, endpoint   the tool it runs and its arguments       *)
(*   began     content of the file when it started                         *)
(*   read      content of the file when it read it                         *)
(*   config    its local variable config once the entry is put in          *)
(*   readAt, wroteAt   the position of its read and of its write among    *)
(*             the file operations of all invocations (0: not done)        *)
(*   exit      its exit code                                               *)
(* A get-configured may read the file at any moment.                       *)
(***************************************************************************)
\* the invocations
Procs == {1, 2}

IdleProc ==
  [pc |-> "idle", variant |-> "none", org_url |-> <<>>, endpoint |-> "none",
   began |-> FileMissing, read |-> FileMissing, config |-> JNull,
   readAt |-> 0, wroteAt |-> 0, exit |-> 0]

\* command lines of the concurrent invocations (unified ones with
\* --tool copilot)
ConcurrentArgs ==
  {[variant |-> "perorg", org_url |-> Org_acme, endpoint |-> "preview"],
   [variant |-> "perorg", org_url |-> Org_acme4, endpoint |-> "ga"],
   [variant |-> "perorg", org_url |-> Org_example, endpoint |-> "ga"],
   [variant |-> "unified", org_url |-> Org_example, endpoint |-> "preview"],
   [variant |-> "unified", org_url |-> Org_acme, endpoint |-> "ga"]}

\* contents of the config file the concurrent invocations start from
ConcurrentFiles ==
  {FileMissing, FileMalformed, JList,
   Top1("mcpServers", Map1(Name_github, Entry(Url_xioSlash))),
   Top2("servers", Map1(Name_github, Entry(Url_xio)),
        "mcpServers", Map1(Name_jira, Entry(Url_acmeGa))),
   Top1("servers", JNull)}

InitConcurrent ==
  /\ file \in ConcurrentFiles
  /\ hasClaude = FALSE
  /\ writable \in BOOLEAN
  /\ call = NoCall
  /\ pre = file
  /\ exit = 0
  /\ out = <<>>
  /\ err = <<>>
  /\ steps = <<>>
  /\ runs = 0
  /\ lpc = "idle"
  /\ procs = [i \in Procs |-> IdleProc]

\* number of file operations invocation p has done
OpsDone(p) ==
  (IF p.readAt > 0 THEN 1 ELSE 0)
  + (IF p.pc = "dump" \/ p.wroteAt > 0 THEN 1 ELSE 0)
  + (IF p.wroteAt > 0 THEN 1 ELSE 0)

\* position of the next file operation
NextOp == SumOver([i \in Procs |-> OpsDone(procs[i])], Procs) + 1

\* server name invocation p writes its entry under
ServerNameOf(p) ==
  IF p.variant = "unified" THEN SERVER_NAME ELSE get_server_name(p.org_url)

\* invocation i ends with exit code rc
ProcEnds(i, p, rc) ==
  /\ procs' = [procs EXCEPT ![i] = [p EXCEPT !.pc = "done", !.exit = rc]]
  /\ runs' = runs + 1

\* main -> configure -> configure_copilot, up to
\* config_file.parent.mkdir(parents=True, exist_ok=True); an OSError is
\* caught by configure, which returns 1
StartConfigure(i) ==
  /\ procs[i].pc = "idle"
  /\ \E a \in ConcurrentArgs :
       LET p == [procs[i] EXCEPT !.variant = a.variant, !.org_url = a.org_url,
                                 !.endpoint = a.endpoint, !.began = file]
       IN  IF writable
           THEN procs' = [procs EXCEPT ![i] = [p EXCEPT !.pc = "read"]]
                /\ runs' = runs
           ELSE ProcEnds(i, p, 1)
  /\ UNCHANGED <<file, hasClaude, writable, call, pre, exit, out, err, steps, lpc>>

\* "Load existing config or create new", the servers key, the upsert; a
\* TypeError (config or its servers value is no dict) is caught by
\* configure, which returns 1
ReadConfig(i) ==
  /\ procs[i].pc = "read"
  /\ LET config == LoadOrEmpty(file)
         p == [procs[i] EXCEPT !.read = file, !.readAt = NextOp]
     IN  IF \/ ~IsDict(config)
            \/ /\ ServersKey(config) \in DOMAIN config.o
               /\ ~IsDict(config.o[ServersKey(config)])
         THEN ProcEnds(i, p, 1)
         ELSE /\ procs' = [procs EXCEPT ![i] =
                   [p EXCEPT !.pc = "open",
                             !.config = Upsert(config, ServersKey(config),
                                               ServerNameOf(p),
                                               McpUrl(p.org_url, p.endpoint))]]
              /\ runs' = runs
  /\ UNCHANGED <<file, hasClaude, writable, call, pre, exit, out, err, steps, lpc>>

\* with open(config_file, "w", encoding="utf-8") as f: the file is truncated
OpenForWrite(i) ==
  /\ procs[i].pc = "open"
  /\ file' = Truncated
  /\ procs' = [procs EXCEPT ![i].pc = "dump"]
  /\ UNCHANGED <<hasClaude, writable, call, pre, exit, out, err, steps, runs, lpc>>

\* json.dump(config, f, indent=2); f.write("\n"); the end of the with
\* block closes f and the text reaches the file; configure returns 0
DumpAndClose(i) ==
  /\ procs[i].pc = "dump"
  /\ file' = WriteOver(file, procs[i].config)
  /\ ProcEnds(i, [procs[i] EXCEPT !.wroteAt = NextOp], 0)
  /\ UNCHANGED <<hasClaude, writable, call, pre, exit, out, err, steps, lpc>>

\* perorg: mcp_setup.py get-configured, once, at any moment
GetConfiguredMeanwhile ==
  /\ call.cmd = "none"
  /\ Finish([NoCall EXCEPT !.cmd = "get-configured", !.variant = "perorg",
                           !.tool = "copilot"],
            get_configured_servers_perorg(file))

NextConcurrent ==
  \/ \E i \in Procs : StartConfigure(i)
  \/ \E i \in Procs : ReadConfig(i)
  \/ \E i \in Procs : OpenForWrite(i)
  \/ \E i \in Procs : DumpAndClose(i)
  \/ GetConfiguredMeanwhile

SpecConcurrent == InitConcurrent /\ [][NextConcurrent]_vars

(***************************************************************************)
(* Properties.  Each is stated on the result of the last invocation: call  *)
(* holds its arguments, pre the config file it started from.               *)
(***************************************************************************)
\* the last invocation was a configure that got to the Copilot write
\* (unified: tool copilot or both, and Claude did not end the run; perorg:
\* always)
ReachedCopilotWrite ==
  /\ call.cmd = "configure"
  /\ \E i \in 1..Len(steps) : steps[i] = "configure_copilot"

\* the name the last configure writes its entry under
WrittenName ==
  IF call.variant = "unified" THEN SERVER_NAME ELSE get_server_name(call.org_url)

\* the config file holds a store: a JSON object whose servers keys, where
\* present, hold mappings
IsStore(f) ==
  /\ IsDict(f)
  /\ \A k \in {"servers", "mcpServers"} \cap DOMAIN f.o : IsDict(f.o[k])

\* the last configure printed the line naming the Copilot config file, which
\* it does exactly when it recorded GitHub Copilot as configured
CopilotConfigured ==
  /\ call.cmd = "configure"
  /\ \E i \in 1..Len(out) : out[i].line = "copilot_config"

\* C1: a merge write into an existing store puts the new entry under the
\* servers key that already existed ("servers" if present, otherwise
\* "mcpServers"), leaves every entry with another name unchanged under its
\* servers key, adds nothing else, and neither creates nor changes the other
\* servers key; into a missing or malformed file it writes a store with the
\* one entry under "mcpServers"; and a configure that fails leaves every
\* entry of the file as it was
C1_MergePreservesEntries ==
  /\ (ReachedCopilotWrite /\ writable /\ IsStore(pre)) =>
       LET key == IF "servers" \in DOMAIN pre.o THEN "servers" ELSE "mcpServers"
           other == IF key = "servers" THEN "mcpServers" ELSE "servers"
           old == IF key \in DOMAIN pre.o THEN pre.o[key].o ELSE EmptyDict
       IN  /\ IsStore(file)
           /\ key \in DOMAIN file.o
           /\ DOMAIN file.o[key].o = (DOMAIN old) \cup {WrittenName}
           /\ \A n \in (DOMAIN old) \ {WrittenName} : file.o[key].o[n] = old[n]
           /\ IsDict(file.o[key].o[WrittenName])
           /\ "url" \in DOMAIN file.o[key].o[WrittenName].o
           /\ (other \in DOMAIN file.o) = (other \in DOMAIN pre.o)
           /\ \A k \in (DOMAIN pre.o) \ {key} :
                k \in DOMAIN file.o /\ file.o[k] = pre.o[k]
  /\ (ReachedCopilotWrite /\ writable /\ pre.t \in {"missing", "malformed"}) =>
       /\ IsStore(file)
       /\ DOMAIN file.o = {"mcpServers"}
       /\ DOMAIN file.o["mcpServers"].o = {WrittenName}
  /\ (call.cmd = "configure" /\ ~CopilotConfigured) => file = pre

\* C1 witness: a merge write into a store that holds both servers keys and an
\* entry with another name under "servers"
C1_Witness ==
  /\ ReachedCopilotWrite /\ writable /\ IsStore(pre) /\ exit = 0
  /\ {"servers", "mcpServers"} \subseteq DOMAIN pre.o
  /\ \E n \in DOMAIN pre.o["servers"].o : n # WrittenName
  /\ WrittenName \in DOMAIN file.o["servers"].o

\* the endpoint URL of the last configure, as the specification derives it
ExpectedEndpoint ==
  IF call.endpoint = "preview" THEN call.org_url \o S_api_mcp_preview
  ELSE call.org_url \o S_api_mcp

\* entry e is exactly {type: "http", url: u}
IsPlainEntry(e, u) ==
  /\ IsDict(e)
  /\ DOMAIN e.o = {"type", "url"}
  /\ e.o["type"] = JStr(S_httpType)
  /\ e.o["url"] = JStr(u)

\* C9: after a successful Copilot configure the store holds, under the server
\* name, exactly {type: "http", url: E}, E being org_url + "/api/mcp_preview"
\* for "preview" and org_url + "/api/mcp" for "ga" or no argument; every
\* other entry of the file is as it was, and a configure that did not
\* configure Copilot leaves the file as it was
C9_EndpointEntry ==
  call.cmd = "configure" =>
    IF CopilotConfigured
    THEN /\ exit = 0
         /\ IsStore(file)
         /\ \E key \in {"servers", "mcpServers"} \cap DOMAIN file.o :
              /\ WrittenName \in DOMAIN file.o[key].o
              /\ IsPlainEntry(file.o[key].o[WrittenName], ExpectedEndpoint)
              /\ \A k \in {"servers", "mcpServers"} \cap DOMAIN file.o :
                   \A n \in DOMAIN file.o[k].o :
                     \/ k = key /\ n = WrittenName
                     \/ /\ IsStore(pre)
                        /\ k \in DOMAIN pre.o
                        /\ n \in DOMAIN pre.o[k].o
                        /\ file.o[k].o[n] = pre.o[k].o[n]
    ELSE file = pre

\* C9 witness: a successful configure with no endpoint argument replaced an
\* entry that carried OAuth fields
C9_Witness ==
  /\ CopilotConfigured
  /\ call.endpoint = "omitted"
  /\ IsStore(pre)
  /\ \E k \in {"servers", "mcpServers"} \cap DOMAIN pre.o :
       /\ WrittenName \in DOMAIN pre.o[k].o
       /\ IsDict(pre.o[k].o[WrittenName])
       /\ "oauthClientId" \in DOMAIN pre.o[k].o[WrittenName].o

\* the last invocation was the unified configure
UnifiedConfigure == call.cmd = "configure" /\ call.variant = "unified"

\* what "claude mcp add" wrote, stderr first as configure_claude combines it
AddOutput == call.run.stderr \o call.run.stdout

\* "claude mcp add" was run and failed
AddFailed == call.tool \in {"claude", "both"} /\ hasClaude /\ call.run.rc # 0

\* C2: with tool=claude and the Claude CLI present, a failed "claude mcp add"
\* whose output contains one of the two nested-session phrases makes configure
\* print the manual command for the computed URL and exit 0
C2_NestedSessionExitsZero ==
  (/\ UnifiedConfigure /\ call.tool = "claude" /\ AddFailed
   /\ \/ Contains(AddOutput, NestedPhrase1)
      \/ Contains(AddOutput, NestedPhrase2)) =>
    /\ exit = 0
    /\ out = <<Line("manual", ManualCmd(ExpectedEndpoint))>>

\* no item of standard output is the manual-instructions block
NoManualInstructions == \A i \in 1..Len(out) : out[i].line # "manual_instructions"

\* C3 as stated: when the only requested tool is not installed, configure
\* prints the manual-instructions block and exits 0
C3_NeverFailsOutright ==
  (UnifiedConfigure /\ call.tool = "claude" /\ ~hasClaude) =>
    /\ exit = 0
    /\ ~NoManualInstructions

\* C3 as amended: configure never prints the manual-instructions block; when
\* the Claude CLI is not installed it prints a diagnostic to the error stream,
\* with tool=claude it exits 1 and leaves the config file alone, and with
\* tool=both it goes on to the Copilot write and exits 0 exactly when that
\* write succeeded
C3_ClaudeMissingFails ==
  /\ call.cmd = "configure" => NoManualInstructions
  /\ (UnifiedConfigure /\ call.tool \in {"claude", "both"} /\ ~hasClaude) =>
       /\ err # <<>> /\ err[1] = "claude_not_found"
       /\ call.tool = "claude" => exit = 1 /\ out = <<>> /\ file = pre /\ steps = <<>>
       /\ call.tool = "both" =>
            /\ ReachedCopilotWrite
            /\ (exit = 0) = CopilotConfigured
            /\ (exit = 1) = ~CopilotConfigured

\* C3 witness: tool=claude without the Claude CLI ended with exit code 1
C3_Witness ==
  /\ UnifiedConfigure /\ call.tool = "claude" /\ ~hasClaude
  /\ exit = 1
  /\ err = <<"claude_not_found">>

\* a nested-session error: "claude mcp add" failed and its output contains one
\* of the two phrases, in any letter case
NestedSessionError ==
  /\ AddFailed
  /\ \/ Contains(Lower(AddOutput), Lower(NestedPhrase1))
     \/ Contains(Lower(AddOutput), Lower(NestedPhrase2))

\* "claude mcp add" succeeded
ClaudeConfigured == call.tool \in {"claude", "both"} /\ hasClaude /\ call.run.rc = 0

\* the Copilot write was made without an error
CopilotWritten ==
  /\ ReachedCopilotWrite
  /\ \A i \in 1..Len(err) : err[i] # "copilot_failed"

\* the exit code rule of C4, nested being what counts as a nested-session error
ExitCodeRule(nested) ==
  UnifiedConfigure =>
    /\ exit \in {0, 1}
    /\ (exit = 1) =
         \/ call.tool = "claude" /\ ~ClaudeConfigured /\ ~nested
         \/ call.tool = "copilot" /\ ~CopilotWritten
         \/ call.tool = "both" /\ ~ClaudeConfigured /\ ~CopilotWritten /\ ~nested
    /\ call.tool = "both" => ReachedCopilotWrite

\* C4: configure exits 1 exactly when an exclusively requested tool fails for
\* a reason other than a nested-session error, or tool=both configured neither
\* tool and queued no manual command; otherwise it exits 0, and with tool=both
\* the Copilot write is attempted whatever happened to Claude
C4_ExitCodeRule == ExitCodeRule(NestedSessionError)

\* the same rule with "nested-session error" read as what configure_claude
\* detects: this holds, so C4 fails through the detection alone
ExitCodeRuleAsDetected == ExitCodeRule(AddFailed /\ IsNestedSession(AddOutput))

\* C7: get-configured always exits 0 and prints a JSON array, whatever the
\* state of its sources
C7_AlwaysExitsZero ==
  call.cmd = "get-configured" =>
    /\ exit = 0
    /\ Len(out) = 1
    /\ out[1].line = "json"

\* the config file is one the reader can take URLs from: missing, malformed,
\* or an object whose servers mapping (mcpServers, else servers, where present)
\* maps names to objects whose url, where present, is a string
ReadableStore(f) ==
  \/ f.t \in {"missing", "malformed"}
  \/ /\ IsDict(f)
     /\ LET k == IF "mcpServers" \in DOMAIN f.o THEN "mcpServers" ELSE "servers"
        IN  k \in DOMAIN f.o =>
              /\ IsDict(f.o[k])
              /\ \A n \in DOMAIN f.o[k].o :
                   /\ IsDict(f.o[k].o[n])
                   /\ "url" \in DOMAIN f.o[k].o[n].o => f.o[k].o[n].o["url"].t = "str"

\* the URLs C8 expects from the config file f
ExpectedFileUrls(f) ==
  IF ~IsDict(f) THEN {}
  ELSE LET k == IF "mcpServers" \in DOMAIN f.o THEN "mcpServers" ELSE "servers"
           m == IF k \in DOMAIN f.o THEN f.o[k].o ELSE EmptyDict
           raw == {m[n].o["url"].s : n \in {x \in DOMAIN m : "url" \in DOMAIN m[x].o}}
       IN  {RStrip(u, {"/"}) : u \in {v \in raw : StartsWith(RStrip(v, {"/"}), S_https)}}

\* the URLs in the output of "claude mcp list", for the outputs of ListRuns
ExpectedListUrls(run) ==
  IF run.exc = "none" /\ run.rc = 0 /\ run.stdout = Text_listTwo
  THEN {Url_acmeGa, Url_xio, Url_xioSlash}
  ELSE {}

\* C8: get-configured prints the union of the URLs of the requested sources,
\* each once and in ascending order; from the file it reads mcpServers in
\* preference to servers and keeps the URLs that start with https:// once
\* trailing slashes are trimmed; it changes no source, so a second run prints
\* the same array
C8_SortedUnion ==
  (/\ call.cmd = "get-configured"
   /\ call.tool \in {"copilot", "both"} => ReadableStore(pre)) =>
    /\ exit = 0
    /\ file = pre
    /\ Len(out) = 1
    /\ out[1].line = "json"
    /\ LET arr == out[1].arg
       IN  /\ \A i \in 1..(Len(arr) - 1) : StrLess(arr[i], arr[i + 1])
           /\ {arr[i] : i \in 1..Len(arr)} =
                (IF call.tool \in {"claude", "both"} /\ hasClaude
                 THEN ExpectedListUrls(call.run) ELSE {})
                \cup (IF call.tool \in {"copilot", "both"}
                      THEN ExpectedFileUrls(pre) ELSE {})

\* C8 witness: both sources were read, both servers keys exist, and the array
\* holds one URL from the file that "claude mcp list" named too
C8_Witness ==
  /\ call.cmd = "get-configured" /\ call.tool = "both" /\ hasClaude
  /\ call.run.stdout = Text_listTwo
  /\ IsStore(pre) /\ {"servers", "mcpServers"} \subseteq DOMAIN pre.o
  /\ exit = 0
  /\ Len(out[1].arg) = 3
  /\ Url_acmeGa \in ExpectedFileUrls(pre)

Name_example ==
  <<"D", "a", "t", "a", "v", "e", "r", "s", "e", "M", "c", "p", "o", "r", "g", "b", "c",
    "9", "a", "9", "6", "5", "c">>

\* u1 and u2 name the same organization
SameOrg(u1, u2) == RStrip(u1, {"/"}) = RStrip(u2, {"/"})

\* entry e is one the tool wrote for organization URL u
WrittenFor(e, u) == IsPlainEntry(e, u \o S_api_mcp) \/ IsPlainEntry(e, u \o S_api_mcp_preview)

\* C10: get_server_name is "DataverseMcp" followed by the first DNS label of
\* the organization URL, and the name is unique per organization: a configure
\* never overwrites the entry the tool wrote for another organization
C10_UniqueServerName ==
  /\ get_server_name(Org_example) = Name_example
  /\ (/\ call.cmd = "configure" /\ call.variant = "perorg" /\ exit = 0
      /\ IsStore(pre)) =>
       \A k \in {"servers", "mcpServers"} \cap DOMAIN pre.o :
         \A u \in OrgUrls :
           (/\ WrittenName \in DOMAIN pre.o[k].o
            /\ WrittenFor(pre.o[k].o[WrittenName], u)
            /\ k \in DOMAIN file.o
            /\ file.o[k].o[WrittenName] # pre.o[k].o[WrittenName]) =>
             SameOrg(u, call.org_url)

\* the records of the response the last list-environments received (none
\* when the response is no object or has no "value")
ResponseRecords ==
  LET d == call.list.data
  IN  IF IsDict(d) /\ "value" \in DOMAIN d.o THEN d.o["value"].a ELSE <<>>

\* field k of the properties of record e, JNull when there is none
PropertyOf(e, k) ==
  IF "properties" \in DOMAIN e.o /\ k \in DOMAIN e.o["properties"].o
  THEN e.o["properties"].o[k]
  ELSE JNull

\* properties.linkedEnvironmentMetadata.instanceUrl of record e, the empty
\* string when it is absent or no string
StatedInstanceUrl(e) ==
  LET lem == PropertyOf(e, "linkedEnvironmentMetadata")
  IN  IF IsDict(lem) /\ "instanceUrl" \in DOMAIN lem.o /\ lem.o["instanceUrl"].t = "str"
      THEN lem.o["instanceUrl"].s
      ELSE <<>>

\* the records C6 says are listed
IsListed(e) ==
  /\ PropertyOf(e, "databaseType") = JStr(S_CommonDataService)
  /\ RStrip(StatedInstanceUrl(e), {"/"}) # <<>>

\* the last list-environments received a response and parsed it
ResponseParsed == call.cmd = "list-environments" /\ call.list.http = "ok"

\* C5: list-environments writes to standard output only when it exits 0, and
\* then one non-empty JSON array; when the filtered list is empty it exits 1
\* with nothing on standard output
C5_EmptyListFails ==
  call.cmd = "list-environments" =>
    /\ exit \in {0, 1}
    /\ out # <<>> =>
         /\ exit = 0
         /\ Len(out) = 1
         /\ out[1].line = "json"
         /\ out[1].arg # <<>>
    /\ (ResponseParsed /\ SelectSeq(ResponseRecords, IsListed) = <<>>) =>
         /\ exit = 1
         /\ out = <<>>

\* C5 witness: a response with records, none of which is listed
C5_Witness ==
  /\ ResponseParsed
  /\ call.variant = "unified"
  /\ Len(ResponseRecords) = 2
  /\ SelectSeq(ResponseRecords, IsListed) = <<>>
  /\ err = <<"no_environments">>
  /\ exit = 1

\* C6: the printed list holds, in response order, exactly the records whose
\* databaseType is CommonDataService and whose instanceUrl is non-empty once
\* trailing slashes are trimmed, each with its trimmed instanceUrl; no printed
\* instanceUrl ends with "/"
C6_FilteredList ==
  (call.cmd = "list-environments" /\ exit = 0) =>
    LET listed == SelectSeq(ResponseRecords, IsListed)
        arr == out[1].arg
    IN  /\ ResponseParsed
        /\ Len(arr) = Len(listed)
        /\ \A i \in 1..Len(arr) :
             /\ arr[i].instanceUrl = RStrip(StatedInstanceUrl(listed[i]), {"/"})
             /\ arr[i].instanceUrl # <<>>
             /\ arr[i].instanceUrl[Len(arr[i].instanceUrl)] # "/"
             /\ arr[i].displayName =
                  (IF PropertyOf(listed[i], "displayName") = JNull THEN JStr(S_unnamed)
                   ELSE PropertyOf(listed[i], "displayName"))

\* C6 witness: two records are printed, the first with its trailing slash
\* trimmed
C6_Witness ==
  /\ call.cmd = "list-environments" /\ exit = 0
  /\ Len(ResponseRecords) = 2
  /\ Len(out[1].arg) = 2
  /\ StatedInstanceUrl(ResponseRecords[1]) = Env_urlA
  /\ out[1].arg[1].instanceUrl # Env_urlA


\* number of times the external call x was made by the last invocation
TimesCalled(x) == Len(SelectSeq(steps, LAMBDA y : y = x))

\* the external call x was made before the i-th call of the last invocation
CalledBefore(x, i) == \E j \in 1..(i - 1) : steps[j] = x

\* the statement-by-statement invocation, once it has ended, has the result
\* list_environments computes from the same outcomes
StepwiseAgrees ==
  (lpc = "done" /\ call.variant = "unified") =>
    LET l == call.list
        r == list_environments(l.az, l.probe, l.login, l.token, l.http, l.data)
    IN  /\ [l EXCEPT !.data = JNull] \in ListInputs
        /\ exit = r.exit /\ out = r.out /\ err = r.err /\ steps = r.steps

\* C11: in every run of list-environments the login is attempted at most
\* once and only after the session probe failed or timed out; the token is
\* requested only after the probe or the login succeeded; the HTTP GET is
\* made only after a token was obtained; a failed login ends the run with
\* exit 1 and no token request or HTTP call; no call is made twice
C11_LoginOnceInOrder ==
  call.cmd = "list-environments" =>
    /\ \A x \in {"az_account_show", "az_login", "get_access_token", "http_get"} :
         TimesCalled(x) <= 1
    /\ \A i \in 1..Len(steps) :
         /\ steps[i] = "az_login" =>
              /\ CalledBefore("az_account_show", i)
              /\ call.list.probe \in {"CalledProcessError", "TimeoutExpired"}
         /\ steps[i] = "get_access_token" =>
              \/ CalledBefore("az_account_show", i) /\ call.list.probe = "ok"
              \/ CalledBefore("az_login", i) /\ call.list.login = "ok"
         /\ steps[i] = "http_get" =>
              CalledBefore("get_access_token", i) /\ call.list.token = "ok"
    /\ call.list.login = "CalledProcessError" =>
         /\ lpc = "done"
         /\ exit = 1
         /\ out = <<>>
         /\ TimesCalled("get_access_token") = 0
         /\ TimesCalled("http_get") = 0

\* a run that logged in after a probe that timed out and got to the HTTP GET
C11_Witness ==
  /\ call.cmd = "list-environments"
  /\ call.list.probe = "TimeoutExpired"
  /\ call.list.login = "ok"
  /\ steps = <<"az_account_show", "az_login", "get_access_token", "http_get">>
  /\ lpc = "done"
  /\ exit = 0


\* C12: in both variants, when az is not on the search path list-environments
\* prints the tool-missing diagnostic to the error stream, exits 1 and makes
\* no login, token request or HTTP call
C12_ToolMissing ==
  (call.cmd = "list-environments" /\ lpc = "done" /\ ~call.list.az) =>
    /\ exit = 1
    /\ err = <<"az_missing">>
    /\ out = <<>>
    /\ steps = <<>>

\* the unified variant alone does what C12 says
ToolMissingUnified ==
  (call.variant = "unified") => C12_ToolMissing


\* the config file is one of the initial contents C15 names: missing,
\* malformed, or an object holding "servers", "mcpServers", both or neither,
\* each a mapping from names to entries whose url, where present, is a string
NamedInitialContent(f) ==
  \/ f.t \in {"missing", "malformed"}
  \/ /\ IsStore(f)
     /\ \A k \in {"servers", "mcpServers"} \cap DOMAIN f.o :
          \A n \in DOMAIN f.o[k].o :
            /\ IsDict(f.o[k].o[n])
            /\ "url" \in DOMAIN f.o[k].o[n].o => f.o[k].o[n].o["url"].t = "str"

\* C15: read-after-write: after a configure that configured Copilot and
\* exited 0, from any of the named initial contents, a get-configured that
\* reads the Copilot source next exits 0 and prints an array that contains
\* the endpoint URL the configure wrote
C15_ReadAfterWrite ==
  [][(/\ CopilotConfigured
      /\ exit = 0
      /\ NamedInitialContent(pre)
      /\ StartsWith(call.org_url, S_https)
      /\ call'.cmd = "get-configured"
      /\ call'.tool \in {"copilot", "both"}) =>
       /\ exit' = 0
       /\ Len(out') = 1
       /\ out'[1].line = "json"
       /\ \E i \in 1..Len(out'[1].arg) : out'[1].arg[i] = ExpectedEndpoint]_vars

\* read-after-write where the file did not hold both servers keys
ReadAfterWriteOneKey ==
  [][(/\ CopilotConfigured
      /\ exit = 0
      /\ NamedInitialContent(pre)
      /\ ~(IsDict(pre) /\ {"servers", "mcpServers"} \subseteq DOMAIN pre.o)
      /\ call'.cmd = "get-configured"
      /\ call'.tool \in {"copilot", "both"}) =>
       /\ exit' = 0
       /\ Len(out') = 1
       /\ out'[1].line = "json"
       /\ \E i \in 1..Len(out'[1].arg) : out'[1].arg[i] = ExpectedEndpoint]_vars


\* both concurrent invocations have written the file and returned 0
BothWrote == \A i \in Procs : procs[i].pc = "done" /\ procs[i].exit = 0

\* the file holds a store with an entry under the name invocation i wrote
EntryKept(i) ==
  /\ IsStore(file)
  /\ \E k \in {"servers", "mcpServers"} \cap DOMAIN file.o :
       ServerNameOf(procs[i]) \in DOMAIN file.o[k].o

\* store s holds every entry of store r under the same key and name
HoldsAllOf(s, r) ==
  /\ IsStore(s)
  /\ \A k \in {"servers", "mcpServers"} \cap DOMAIN r.o :
       /\ k \in DOMAIN s.o
       /\ DOMAIN r.o[k].o \subseteq DOMAIN s.o[k].o

\* C13: two configure invocations at the same time, no lock: whatever the
\* interleaving of their reads and writes, the final file is exactly the
\* store written by the invocation that wrote last, which is the store it
\* read plus its own entry, and the entry of the other invocation is missing
\* only when the last writer read the file before the other wrote it
C13_LastWriterWins ==
  BothWrote =>
    \E last \in Procs :
      \A other \in Procs \ {last} :
        /\ procs[last].wroteAt > procs[other].wroteAt
        /\ file = procs[last].config
        /\ EntryKept(last)
        /\ IsStore(procs[last].read) => HoldsAllOf(file, procs[last].read)
        /\ ~EntryKept(other) => procs[last].readAt < procs[other].wroteAt

\* content f was left by a truncation or a partial overwrite of the tool
Torn(f) == f.t = "malformed" /\ "len" \in DOMAIN f

\* C14: the merge write is atomic for every other reader of the file: no
\* configure and no get-configured reads an empty or partly written file,
\* and the entries the file held when a configure started are in the file
\* once both concurrent invocations have finished
C14_AtomicWrite ==
  /\ \A i \in Procs : procs[i].readAt > 0 => ~Torn(procs[i].read)
  /\ (procs # <<>> /\ call.cmd = "get-configured") => ~Torn(pre)
  /\ BothWrote =>
       \A i \in Procs : IsStore(procs[i].began) => HoldsAllOf(file, procs[i].began)

\* last writer wins when no write starts before the other write is complete
LastWriterWinsSerialWrites ==
  (\A i, j \in Procs :
     (i # j /\ procs[i].wroteAt > procs[j].wroteAt) =>
        procs[i].wroteAt > procs[j].wroteAt + 1) => C13_LastWriterWins

====
